---- MODULE Spec2Model ----
(***************************************************************************)
(* Lifecycle model of the OpenPackage GUI shell,                           *)
(* packages/gui/src-tauri/src/main.rs:                                     *)
(*                                                                         *)
(*     fn main() {                                                         *)
(*         tauri::Builder::default()                                       *)
(*             .run(tauri::generate_context!())                            *)
(*             .expect("error while running tauri application");           *)
(*     }                                                                   *)
(*                                                                         *)
(* main builds the default builder, hands it the generated context and     *)
(* blocks in run.  The host (the tauri crate, not part of this repository) *)
(* is the environment: its setup succeeds or fails, its event loop         *)
(* services events, receives a shutdown request, or reports an error.      *)
(* What main does with the Result that run returns (expect, then return    *)
(* from main or panic) is translated from the source.                      *)
(***************************************************************************)
EXTENDS Naturals, Sequences, FiniteSets

\* ---------------------------------------------------------------- bounds

\* Events the host loop services in one session before the model stops
\* counting them.
MaxEvents == 5

\* Distinct error descriptions the host can report per error kind.
MaxErrCode == 3

\* ------------------------------------------------------ program constants

\* The message literal handed to expect (main.rs:12).
FixedMsg == "error while running tauri application"

\* Exit status of a normal return from main (main.rs:13).
ExitSuccess == 0

\* Exit status of a Rust process whose main thread panics and unwinds.
PanicExitCode == 101

\* Exit status of a Rust process that panics under panic = "abort" (SIGABRT).
AbortExitCode == 134

\* ------------------------------------------------------------------ state

VARIABLES
    pc,                 \* position of main: "entry", "running", "exited"
    builder,            \* the Builder value main holds, NoBuilder before line 10
    hostPhase,          \* the host inside run: "idle", "setup", "loop", "stopped"
    windowOpened,       \* the host has shown the application window
    eventsServiced,     \* events the loop has serviced this session
    shutdownRequested,  \* "none", or the external shutdown event received
    result,             \* the Result run returned, NoResult while it blocks
    stderr,             \* diagnostics written to the error stream, in order
    exitStatus,         \* the exit status, NoStatus while the process lives
    builderCalls,       \* times Builder::default() was evaluated
    runCalls,           \* times run was invoked
    panicStrategy       \* the build's panic strategy: "unwind" or "abort"

vars == <<pc, builder, hostPhase, windowOpened, eventsServiced,
          shutdownRequested, result, stderr, exitStatus, builderCalls,
          runCalls, panicStrategy>>

NoBuilder == [tag |-> "none"]
NoResult == [tag |-> "none"]
NoStatus == [tag |-> "none"]

\* The exit status of a terminated process.
Exited(code) == [tag |-> "exited", code |-> code]

\* The Result<(), Error> values run can return.
Ok == [tag |-> "Ok"]
Err(e) == [tag |-> "Err", err |-> e]

\* Errors the host reports: a kind and a description.
SetupErrors == [kind : {"HostInit"}, code : 1..MaxErrCode]
LoopErrors == [kind : {"RunLoop"}, code : 1..MaxErrCode]

\* External shutdown events.
ShutdownEvents == {"window_close", "host_signal"}

\* Builder::default(): no invoke_handler, plugin or setup hook is attached,
\* and main attaches none before run.
BuilderDefault == [tag |-> "Builder", commands |-> {}]

\* {:?} of the error, as the tokens it prints.
DebugFmt(e) == <<e.kind, "(", e.code, ")">>

\* Variant: the Result is dropped (ok() in place of expect).
ExpectSwallow(res, msg) == [panicked |-> FALSE, message |-> <<>>]

\* Variant: expect_err in place of expect.
ExpectInverted(res, msg) ==
    IF res.tag = "Ok"
    THEN [panicked |-> TRUE, message |-> <<msg, ": ", "()">>]
    ELSE [panicked |-> FALSE, message |-> <<>>]

\* Variant: the panic message leaves the error out.
ExpectNoDescription(res, msg) ==
    IF res.tag = "Ok"
    THEN [panicked |-> FALSE, message |-> <<>>]
    ELSE [panicked |-> TRUE, message |-> <<msg>>]

\* Result::expect (main.rs:12): Ok(()) unwraps to (); Err(e) panics with the
\* message "<msg>: <e:?>".
Expect(res, msg) ==
    IF res.tag = "Ok"
    THEN [panicked |-> FALSE, message |-> <<>>]
    ELSE [panicked |-> TRUE, message |-> <<msg, ": ">> \o DebugFmt(res.err)]

\* How the process ends: main returns (main.rs:13) or the panic raised by
\* expect terminates it (main.rs:12), by unwinding or by abort.
ExitCode(panicked) ==
    IF ~panicked THEN ExitSuccess
    ELSE IF panicStrategy = "unwind" THEN PanicExitCode ELSE AbortExitCode

\* The lifecycle state of the process.
Phase ==
    CASE pc = "entry" -> "NotStarted"
      [] pc = "running" -> "Running"
      [] pc = "exited" /\ exitStatus = Exited(ExitSuccess) -> "TerminatedOk"
      [] OTHER -> "TerminatedFatal"

\* ------------------------------------------------------------------- Init

Init ==
    /\ pc = "entry"
    /\ builder = NoBuilder
    /\ hostPhase = "idle"
    /\ windowOpened = FALSE
    /\ eventsServiced = 0
    /\ shutdownRequested = "none"
    /\ result = NoResult
    /\ stderr = <<>>
    /\ exitStatus = NoStatus
    /\ builderCalls = 0
    /\ runCalls = 0
    /\ panicStrategy \in {"unwind", "abort"}

\* ---------------------------------------------------------------- actions

\* Variant: an error is reported and the builder is rebuilt and run again.
RunReturnsRetryOnErr(res) ==
    LET out == Expect(res, FixedMsg) IN
    /\ result' = res
    /\ IF out.panicked
       THEN /\ stderr' = Append(stderr, out.message)
            /\ builder' = BuilderDefault
            /\ builderCalls' = builderCalls + 1
            /\ runCalls' = runCalls + 1
            /\ hostPhase' = "setup"
            /\ UNCHANGED <<pc, exitStatus>>
       ELSE /\ exitStatus' = Exited(ExitCode(FALSE))
            /\ pc' = "exited"
            /\ hostPhase' = "stopped"
            /\ UNCHANGED <<stderr, builder, builderCalls, runCalls>>
    /\ UNCHANGED <<windowOpened, eventsServiced, shutdownRequested,
                   panicStrategy>>

\* Variant: after run returns Ok the main thread waits instead of returning.
RunReturnsHangsOnOk(res) ==
    LET out == Expect(res, FixedMsg) IN
    /\ result' = res
    /\ stderr' = IF out.panicked THEN Append(stderr, out.message) ELSE stderr
    /\ exitStatus' = IF out.panicked THEN Exited(ExitCode(TRUE)) ELSE exitStatus
    /\ pc' = IF out.panicked THEN "exited" ELSE pc
    /\ hostPhase' = "stopped"
    /\ UNCHANGED <<builder, windowOpened, eventsServiced, shutdownRequested,
                   builderCalls, runCalls, panicStrategy>>

\* Variant: an error relaunches main instead of ending the process.
RunReturnsRelaunchOnErr(res) ==
    LET out == Expect(res, FixedMsg) IN
    /\ result' = res
    /\ stderr' = IF out.panicked THEN Append(stderr, out.message) ELSE stderr
    /\ exitStatus' = Exited(ExitCode(out.panicked))
    /\ pc' = IF out.panicked THEN "entry" ELSE "exited"
    /\ hostPhase' = "stopped"
    /\ UNCHANGED <<builder, windowOpened, eventsServiced, shutdownRequested,
                   builderCalls, runCalls, panicStrategy>>

\* Variant: the error is also logged by hand before expect panics.
RunReturnsLogsFirst(res) ==
    LET out == Expect(res, FixedMsg) IN
    /\ result' = res
    /\ stderr' = IF out.panicked
                 THEN Append(Append(stderr, <<"run failed">>), out.message)
                 ELSE stderr
    /\ exitStatus' = Exited(ExitCode(out.panicked))
    /\ pc' = "exited"
    /\ hostPhase' = "stopped"
    /\ UNCHANGED <<builder, windowOpened, eventsServiced, shutdownRequested,
                   builderCalls, runCalls, panicStrategy>>

\* run returns res to main: expect consumes it, and main returns or panics.
\* The panic message goes to the error stream and the process ends.
RunReturns(res) ==
    LET out == Expect(res, FixedMsg) IN
    /\ result' = res
    /\ stderr' = IF out.panicked THEN Append(stderr, out.message) ELSE stderr
    /\ exitStatus' = Exited(ExitCode(out.panicked))
    /\ pc' = "exited"
    /\ hostPhase' = "stopped"
    /\ UNCHANGED <<builder, windowOpened, eventsServiced, shutdownRequested,
                   builderCalls, runCalls, panicStrategy>>

\* main is entered: Builder::default() is built (main.rs:10), the generated
\* context is attached and run is invoked (main.rs:11); the host begins its
\* setup and main blocks.
MainStart ==
    /\ pc = "entry"
    /\ builder' = BuilderDefault
    /\ builderCalls' = builderCalls + 1
    /\ runCalls' = runCalls + 1
    /\ pc' = "running"
    /\ hostPhase' = "setup"
    /\ UNCHANGED <<windowOpened, eventsServiced, shutdownRequested, result,
                   stderr, exitStatus, panicStrategy>>

\* Variant: the application is built but its loop is not run (build in place
\* of run): main gets Ok as soon as the setup is done.
HostSetupOkThenReturn ==
    /\ hostPhase = "setup"
    /\ windowOpened' = TRUE
    /\ result' = Ok
    /\ exitStatus' = Exited(ExitCode(Expect(Ok, FixedMsg).panicked))
    /\ pc' = "exited"
    /\ hostPhase' = "stopped"
    /\ UNCHANGED <<builder, eventsServiced, shutdownRequested, stderr,
                   builderCalls, runCalls, panicStrategy>>

\* The host finishes its setup: the window is shown and the event loop starts.
\* run keeps blocking.
HostSetupOk ==
    /\ hostPhase = "setup"
    /\ windowOpened' = TRUE
    /\ hostPhase' = "loop"
    /\ UNCHANGED <<pc, builder, eventsServiced, shutdownRequested, result,
                   stderr, exitStatus, builderCalls, runCalls, panicStrategy>>

\* The host fails to initialise: run returns Err before any window is shown.
HostSetupFail ==
    \E e \in SetupErrors :
        /\ hostPhase = "setup"
        /\ RunReturns(Err(e))

\* The loop services one UI or command event; run keeps blocking.
ServiceEvent ==
    /\ hostPhase = "loop"
    /\ shutdownRequested = "none"
    /\ eventsServiced < MaxEvents
    /\ eventsServiced' = eventsServiced + 1
    /\ UNCHANGED <<pc, builder, hostPhase, windowOpened, shutdownRequested,
                   result, stderr, exitStatus, builderCalls, runCalls,
                   panicStrategy>>

\* An external shutdown event arrives: the user closes the window or the host
\* is signalled to shut down.
ShutdownRequest ==
    \E ev \in ShutdownEvents :
        /\ hostPhase = "loop"
        /\ shutdownRequested = "none"
        /\ shutdownRequested' = ev
        /\ UNCHANGED <<pc, builder, hostPhase, windowOpened, eventsServiced,
                       result, stderr, exitStatus, builderCalls, runCalls,
                       panicStrategy>>

\* The loop handles the shutdown event and ends: run returns Ok(()).
HostLoopExit ==
    /\ hostPhase = "loop"
    /\ shutdownRequested # "none"
    /\ RunReturns(Ok)

\* The loop reports an error mid-session: run returns Err.
HostLoopError ==
    \E e \in LoopErrors :
        /\ hostPhase = "loop"
        /\ shutdownRequested = "none"
        /\ RunReturns(Err(e))

Next ==
    \/ MainStart
    \/ HostSetupOk
    \/ HostSetupFail
    \/ ServiceEvent
    \/ ShutdownRequest
    \/ HostLoopExit
    \/ HostLoopError

Spec == Init /\ [][Next]_vars

\* The host's single foreground event loop handles a pending shutdown event.
FairSpec == Spec /\ WF_vars(HostLoopExit)

\* ----------------------------------------------------------------- claims

\* sub occurs in s as a contiguous run of tokens.
Contains(s, sub) ==
    \E i \in 0..(Len(s) - Len(sub)) :
        \A j \in 1..Len(sub) : s[i + j] = sub[j]

Terminated == {"TerminatedOk", "TerminatedFatal"}

\* C1: whenever run has reported an error, before a window was shown or
\* mid-session, the process has terminated fatally with a non-zero exit
\* status, and the error stream ends with a non-empty diagnostic that
\* contains the error's description.
C1_ErrorEndsFatalWithDiagnostic ==
    result.tag = "Err" =>
        /\ Phase = "TerminatedFatal"
        /\ exitStatus.tag = "exited"
        /\ exitStatus.code # 0
        /\ Len(stderr) >= 1
        /\ stderr[Len(stderr)] # <<>>
        /\ Contains(stderr[Len(stderr)], DebugFmt(result.err))

C1_Witness ==
    /\ result.tag = "Err"
    /\ result.err.kind = "RunLoop"
    /\ windowOpened
    /\ eventsServiced > 0
    /\ pc = "exited"

\* C2: a process that has exited has exit status 0 exactly when run returned
\* Ok after an external shutdown event, and then it is in TerminatedOk.
C2_ExitZeroIffGraceful ==
    pc = "exited" =>
        /\ exitStatus.tag = "exited"
        /\ (exitStatus.code = 0) <=>
               (result = Ok /\ shutdownRequested \in ShutdownEvents)
        /\ (result = Ok) => (Phase = "TerminatedOk")

C2_Witness ==
    /\ pc = "exited"
    /\ exitStatus = Exited(0)
    /\ shutdownRequested = "window_close"

\* A step allowed by the lifecycle state machine.
LifecycleStep ==
    /\ \/ Phase' = Phase
       \/ Phase = "NotStarted" /\ Phase' = "Running"
       \/ Phase = "Running" /\ Phase' \in Terminated
    /\ Phase \in Terminated => UNCHANGED vars

\* C3: the lifecycle starts in NotStarted and every step either keeps the
\* phase, goes NotStarted -> Running, or goes Running -> Terminated(ok) or
\* Running -> Terminated(fatal); once terminated, no step changes anything.
C3_LifecycleTransitions ==
    /\ Phase = "NotStarted"
    /\ [][LifecycleStep]_vars

C3_Witness ==
    /\ Phase = "TerminatedFatal"
    /\ windowOpened
    /\ runCalls = 1

\* A step out of Running without an error follows a shutdown event.
LeavesRunningOnlyOnShutdown ==
    (Phase = "Running" /\ Phase' # "Running" /\ result'.tag # "Err") =>
        (hostPhase = "loop" /\ shutdownRequested \in ShutdownEvents)

\* C4: while the host loop runs, the window is open, main is still blocked in
\* run and the process has no exit status; and a step that ends Running
\* without an error from the host happens only after an external shutdown
\* event was received by the running loop.
C4_RunningUntilExternalShutdown ==
    /\ [](hostPhase = "loop" =>
            /\ windowOpened
            /\ Phase = "Running"
            /\ result = NoResult
            /\ exitStatus = NoStatus)
    /\ [][LeavesRunningOnlyOnShutdown]_vars

C4_Witness ==
    /\ hostPhase = "loop"
    /\ windowOpened
    /\ eventsServiced = MaxEvents
    /\ shutdownRequested = "none"

\* C6: the builder is constructed and run is invoked at most once, exactly
\* once as soon as main has started; after an error from run the process is
\* terminated and the host stopped, with still one construction and one run.
C6_RunInvokedOnceNoRetry ==
    /\ builderCalls <= 1
    /\ runCalls <= 1
    /\ pc # "entry" => (builderCalls = 1 /\ runCalls = 1)
    /\ result.tag = "Err" =>
           /\ pc = "exited"
           /\ hostPhase = "stopped"
           /\ Phase = "TerminatedFatal"

C6_Witness ==
    /\ result.tag = "Err"
    /\ result.err.kind = "HostInit"
    /\ runCalls = 1
    /\ builderCalls = 1
    /\ hostPhase = "stopped"

\* C7: once the host loop runs, the builder main handed to run carries a
\* non-empty command-handler registry.
C7_CommandBridgeRegistered ==
    hostPhase = "loop" => builder.commands # {}

\* C8: once the running loop has received a shutdown event, the process
\* eventually terminates with exit status 0 in TerminatedOk.
C8_ShutdownLeadsToExitOk ==
    (hostPhase = "loop" /\ shutdownRequested \in ShutdownEvents)
        ~> (Phase = "TerminatedOk" /\ exitStatus = Exited(0))

C8_Witness ==
    /\ Phase = "TerminatedOk"
    /\ shutdownRequested = "host_signal"
    /\ eventsServiced > 0

\* C9: the error stream is non-empty exactly when the process has terminated
\* fatally, and it then holds exactly one diagnostic; it is empty in
\* NotStarted, Running and TerminatedOk.
C9_StderrIffFatal ==
    /\ (stderr # <<>>) <=> (Phase = "TerminatedFatal")
    /\ Len(stderr) <= 1
    /\ Phase = "TerminatedFatal" => Len(stderr) = 1

C9_Witness ==
    /\ Phase = "TerminatedFatal"
    /\ Len(stderr) = 1
    /\ ~windowOpened

\* The exit-status class and the outcome expected for each result of run.
ExitClass == IF exitStatus.code = 0 THEN "zero" ELSE "nonzero"

OutcomeOf(res) ==
    IF res.tag = "Ok"
    THEN <<"TerminatedOk", "zero", <<>>>>
    ELSE <<"TerminatedFatal", "nonzero",
           << <<"error while running tauri application", ": ",
                res.err.kind, "(", res.err.code, ")">> >> >>

\* C10: the terminal outcome is a function of the result of run alone: Ok
\* gives TerminatedOk, exit status zero and an empty error stream; Err(e)
\* gives TerminatedFatal, a non-zero exit status and the single diagnostic
\* "error while running tauri application" followed by ": " and e's
\* description, whatever the panic strategy, the events serviced and the
\* shutdown event were.
C10_OutcomeFunctionOfResult ==
    pc = "exited" => <<Phase, ExitClass, stderr>> = OutcomeOf(result)

C10_Witness ==
    /\ pc = "exited"
    /\ result.tag = "Err"
    /\ panicStrategy = "abort"
    /\ result.err.code = MaxErrCode

====
